---- MODULE Spec2Model ----
(***************************************************************************)
(* Model of GroupGeneration (src/index.py): the three-phase backtracking   *)
(* assignment of leaders, external experts and ordinary members to M       *)
(* groups, and the validator check().                                      *)
(*                                                                         *)
(* The recursion of assign_backtrace is unfolded into an explicit call     *)
(* stack: one frame per active call, holding the call's index, the         *)
(* group_id its for-loop is at, and (as a record of history only) the      *)
(* table as it was when the call started and the number of appends the     *)
(* call has made.                                                          *)
(***************************************************************************)
EXTENDS Integers, Sequences, FiniteSets, TLC

\* ------------------------------------------------------------------ bounds
\* The numbers of groups, the largest number of members and the provinces
\* of the inputs that are run.
GroupCounts == {1, 2}
MaxN == 3
Provinces == {"A", "B"}

\* The provinces of the validator-only specification, whose tables are not
\* built by the engine.
CheckProvinces == {"A"}

\* The largest M, N and E that init() is applied to on its own.
LimitMaxM == 6
LimitMaxN == 8
LimitMaxE == 8

\* The third token of a person line that marks an external expert.
ExternalMark == "external"
\* A token that is no province: a group line that excludes nothing.
NoProvince == "-"

VARIABLES
    M, N, external_num,
    group_person_lower_limit, group_person_upper_limit,
    group_external_upper_limit,
    max_group_external_touch_upper_limit,
    max_group_member_touch_upper_limit,
    assigned_groups, group_leaders, group_members, groups,
    group_members_no_external, group_members_external,
    pc, stack, returned, result,
    \* what the caller of run() holds: the text and the seed it passed, and
    \* what an earlier run on the same object left
    harness

vars == << M, N, external_num,
           group_person_lower_limit, group_person_upper_limit,
           group_external_upper_limit,
           max_group_external_touch_upper_limit,
           max_group_member_touch_upper_limit,
           assigned_groups, group_leaders, group_members, groups,
           group_members_no_external, group_members_external,
           pc, stack, returned, result, harness >>

\* --------------------------------------------------------------- helpers
Range(s) == { s[i] : i \in 1..Len(s) }

\* x in list
InList(x, list) == \E i \in 1..Len(list) : list[i] = x

\* the quotient plus one, also when the division is exact
CeilPlusOne(a, b) == (a \div b) + 1

\* math.ceil(a / b) for a >= 0, b >= 1
Ceil(a, b) == IF a % b = 0 THEN a \div b ELSE (a \div b) + 1

\* sum(1 for person in group if person["is_external"])
RECURSIVE ExternalCount(_)
ExternalCount(group) ==
    IF group = << >> THEN 0
    ELSE (IF Head(group).is_external THEN 1 ELSE 0) + ExternalCount(Tail(group))

\* ------------------------------------------------------------ input text
\* The non-empty, stripped lines of an input text, each line as its tokens:
\* << M >>, << N >>, M leader lines, N member lines, M group lines.
\* A person line is << name, province >> or << name, province, mark >>;
\* the name is the number of the person's line among the person lines.
PersonAttrs(P) == { << p >> : p \in P } \cup { << p, ExternalMark >> : p \in P }

AttrRank(a) == (IF a[1] = "A" THEN 0 ELSE 2) + (IF Len(a) = 2 THEN 1 ELSE 0)

\* Person lines listed in non-decreasing attribute order: every other order
\* of the same people is produced by shuffle.
SortedAttrs(n, P) ==
    { f \in [1..n -> PersonAttrs(P)] :
        \A i \in 1..n : \A j \in 1..n : i < j => AttrRank(f[i]) <= AttrRank(f[j]) }

GroupLines(P) == { << NoProvince >> } \cup { << p >> : p \in P }
                   \cup { s \in { << "A", "B" >> } : Range(s) \subseteq P }

TextOf(m, n, la, ma, gl) ==
    << << m >>, << n >> >>
    \o [i \in 1..m |-> << i >> \o la[i]]
    \o [i \in 1..n |-> << m + i >> \o ma[i]]
    \o [i \in 1..m |-> gl[i]]

Texts(ms, ns, P) ==
    UNION { UNION { { TextOf(m, n, la, ma, gl) :
                        la \in SortedAttrs(m, P), ma \in SortedAttrs(n, P),
                        gl \in [1..m -> GroupLines(P)] }
                    : n \in ns } : m \in ms }

\* ------------------------------------------------------------ parse_input
get_person_info(text) ==
    [ name |-> text[1], province |-> text[2],
      is_external |-> (Len(text) = 3 /\ text[3] = ExternalMark) ]

ParseM(lines) == lines[1][1]
ParseN(lines) == lines[2][1]
ParseLeaders(lines) ==
    [i \in 1..ParseM(lines) |-> get_person_info(lines[2 + i])]
ParseMembers(lines) ==
    [i \in 1..ParseN(lines) |-> get_person_info(lines[2 + ParseM(lines) + i])]
\* groups[g] for g in 0..M-1: the tokens of the g-th group line
ParseGroups(lines) ==
    [g \in 0..(ParseM(lines) - 1) |->
        lines[2 + ParseM(lines) + ParseN(lines) + g + 1]]
ParseExternalNum(lines) ==
    ExternalCount(ParseLeaders(lines)) + ExternalCount(ParseMembers(lines))

\* ---------------------------------------------------------------- shuffle
\* random.shuffle under a seed: some permutation of the list.
Shuffle(list, perm) == [i \in 1..Len(list) |-> list[perm[i]]]

\* ------------------------------------------------------------------- init
LowerLimit(m, n) == (m + n) \div m
\* the upper limit rounded down as the lower limit is
UpperLimitFloor(m, n) == (m + n) \div m

UpperLimit(m, n) == Ceil(m + n, m)
ExternalUpperLimit(e, m) == Ceil(e, m)
\* the remainder, a zero remainder not replaced by M
TouchLimitNoRemap(total, m) == total % m

TouchLimit(total, m) == IF total % m = 0 THEN m ELSE total % m


\* --------------------------------------------------------- the class state
\* The class-level defaults of GroupGeneration, before any run.
Init ==
    /\ M = -1
    /\ N = -1
    /\ external_num = 0
    /\ group_person_lower_limit = 1
    /\ group_person_upper_limit = -1
    /\ group_external_upper_limit = -1
    /\ max_group_external_touch_upper_limit = -1
    /\ max_group_member_touch_upper_limit = -1
    /\ assigned_groups = << >>
    /\ group_leaders = << >>
    /\ group_members = << >>
    /\ groups = << >>
    /\ group_members_no_external = << >>
    /\ group_members_external = << >>
    /\ pc = "idle"
    /\ stack = << >>
    /\ returned = << >>
    /\ result = [outcome |-> "none", output |-> << >>]
    /\ harness = [text |-> << >>, pl |-> << >>, pm |-> << >>, first |-> << >>]

\* a call whose loop starts at group 1: group 0 is never tried
FrameFromOne(index, table) ==
    [index |-> index, group_id |-> 1, entry |-> table, appended |-> 0]

\* A frame of assign_backtrace: the call's index, the group_id its loop is
\* at, the table as it was when the call started and the number of appends
\* the call has made so far.
Frame(index, table) ==
    [index |-> index, group_id |-> 0, entry |-> table, appended |-> 0]

\* parse_input(text); shuffle(seed); init(): everything they set but the
\* table.
LoadInput(lines, pl, pm) ==
    LET m == ParseM(lines)
        n == ParseN(lines)
        e == ParseExternalNum(lines)
        leaders == Shuffle(ParseLeaders(lines), pl)
        members == Shuffle(ParseMembers(lines), pm)
    IN  /\ M' = m
        /\ N' = n
        /\ external_num' = e
        /\ group_leaders' = leaders
        /\ group_members' = members
        /\ groups' = ParseGroups(lines)
        /\ group_person_lower_limit' = LowerLimit(m, n)
        /\ group_person_upper_limit' = UpperLimit(m, n)
        /\ group_external_upper_limit' = ExternalUpperLimit(e, m)
        /\ max_group_member_touch_upper_limit' = TouchLimit(m + n, m)
        /\ max_group_external_touch_upper_limit' = TouchLimit(e, m)
        /\ group_members_external' =
               SelectSeq(members, LAMBDA mem : mem.is_external)
        /\ group_members_no_external' =
               SelectSeq(members, LAMBDA mem : ~mem.is_external)

\* parse_input without self.assigned_groups.clear(): the table an earlier
\* run left is kept
EmptyTableStale(m) ==
    IF DOMAIN assigned_groups = 0..(m - 1) THEN assigned_groups
    ELSE [g \in 0..(m - 1) |-> << >>]

\* The table after self.assigned_groups.clear(): every group reads as [].
EmptyTable(m) == [g \in 0..(m - 1) |-> << >>]

\* run(seed, text), lines 465-470, up to the call of
\* assign_backtrace(0, leaders, ...)
StartRun(lines, pl, pm) ==
    /\ LoadInput(lines, pl, pm)
    /\ assigned_groups' = EmptyTable(ParseM(lines))
    /\ stack' = << Frame(0, EmptyTable(ParseM(lines))) >>
    /\ pc' = "assign_leaders"
    /\ returned' = << >>
    /\ result' = [outcome |-> "none", output |-> << >>]

\* the first run on a new object, on one of the given texts and any seed
RunOn(texts) ==
    /\ pc = "idle"
    /\ \E lines \in texts :
         \E pl \in Permutations(1..ParseM(lines)) :
           \E pm \in Permutations(1..ParseN(lines)) :
             /\ StartRun(lines, pl, pm)
             /\ harness' = [text |-> lines, pl |-> pl, pm |-> pm,
                            first |-> << >>]

Run == RunOn(Texts(GroupCounts, 0..MaxN, Provinces))

\* ------------------------------------------------------ phase predicates
GroupLen(group_id) == Len(assigned_groups[group_id])

\* get_group_external_num
get_group_external_num(group_id) == ExternalCount(assigned_groups[group_id])

\* assign_leaders.can_assign_func without the one-leader-per-group test
LeaderCanAssignAnyLen(person, group_id) ==
    ~InList(person.province, groups[group_id])

\* assign_leaders.can_assign_func
LeaderCanAssign(person, group_id) ==
    /\ ~InList(person.province, groups[group_id])
    /\ ~(GroupLen(group_id) >= 1)

\* used_group_touched_num counting only the groups above external_upper
ExternalTouchedNumStrict ==
    Cardinality({ g \in 0..(M - 1) :
                    get_group_external_num(g) > group_external_upper_limit })

\* assign_externals.get_group_touch_limit: used_group_touched_num
ExternalTouchedNum ==
    Cardinality({ g \in 0..(M - 1) :
                    get_group_external_num(g) >= group_external_upper_limit })

\* assign_externals.can_assign_func without the per-group external ceiling
ExternalCanAssignNoCeiling(person, group_id) ==
    /\ ~InList(person.province, groups[group_id])
    /\ ~(GroupLen(group_id) >= group_person_upper_limit)
    /\ ~( /\ get_group_external_num(group_id) + 1 >= group_external_upper_limit
          /\ ExternalTouchedNum >= max_group_external_touch_upper_limit )

\* assign_externals.can_assign_func without the province test
ExternalCanAssignNoProvince(person, group_id) ==
    /\ ~(get_group_external_num(group_id) >= group_external_upper_limit)
    /\ ~(GroupLen(group_id) >= group_person_upper_limit)
    /\ ~( /\ get_group_external_num(group_id) + 1 >= group_external_upper_limit
          /\ ExternalTouchedNum >= max_group_external_touch_upper_limit )

\* assign_externals.can_assign_func without the touch-quota test
ExternalCanAssignNoQuota(person, group_id) ==
    /\ ~InList(person.province, groups[group_id])
    /\ ~(get_group_external_num(group_id) >= group_external_upper_limit)
    /\ ~(GroupLen(group_id) >= group_person_upper_limit)

\* assign_externals.can_assign_func
ExternalCanAssign(person, group_id) ==
    /\ ~InList(person.province, groups[group_id])
    /\ ~(get_group_external_num(group_id) >= group_external_upper_limit)
    /\ ~(GroupLen(group_id) >= group_person_upper_limit)
    /\ ~( /\ get_group_external_num(group_id) + 1 >= group_external_upper_limit
          /\ ExternalTouchedNum >= max_group_external_touch_upper_limit )

\* assign_members.get_group_touch_limit: used_group_touched_num
MemberTouchedNum ==
    Cardinality({ g \in 0..(M - 1) : GroupLen(g) >= group_person_upper_limit })

\* assign_members.can_assign_func without the province test
MemberCanAssignNoProvince(person, group_id) ==
    /\ ~(GroupLen(group_id) >= group_person_upper_limit)
    /\ ~( /\ GroupLen(group_id) + 1 >= group_person_upper_limit
          /\ MemberTouchedNum >= max_group_member_touch_upper_limit )

\* assign_members.can_assign_func
MemberCanAssign(person, group_id) ==
    /\ ~InList(person.province, groups[group_id])
    /\ ~(GroupLen(group_id) >= group_person_upper_limit)
    /\ ~( /\ GroupLen(group_id) + 1 >= group_person_upper_limit
          /\ MemberTouchedNum >= max_group_member_touch_upper_limit )

Phases == {"assign_leaders", "assign_externals", "assign_members"}

\* the people list and the predicate each phase hands to assign_backtrace
People ==
    CASE pc = "assign_leaders" -> group_leaders
      [] pc = "assign_externals" -> group_members_external
      [] pc = "assign_members" -> group_members_no_external
      [] OTHER -> << >>

can_assign_func(person, group_id) ==
    CASE pc = "assign_leaders" -> LeaderCanAssign(person, group_id)
      [] pc = "assign_externals" -> ExternalCanAssign(person, group_id)
      [] pc = "assign_members" -> MemberCanAssign(person, group_id)
      [] OTHER -> FALSE

\* ------------------------------------------------------- assign_backtrace
Top == stack[Len(stack)]
Caller == SubSeq(stack, 1, Len(stack) - 1)
SetTop(frame) == [stack EXCEPT ![Len(stack)] = frame]

\* people[index]
Person == People[Top.index + 1]

\* self.assigned_groups[group_id].append(person)
Append_(table, group_id, person) ==
    [table EXCEPT ![group_id] = Append(@, person)]

\* the undo left out
PopNothing(table, group_id) == table

\* the undo as pop(0): the first element is removed, not the last
PopFirst(table, group_id) ==
    [table EXCEPT ![group_id] = SubSeq(@, 2, Len(@))]

\* self.assigned_groups[group_id].pop()
Pop_(table, group_id) ==
    [table EXCEPT ![group_id] = SubSeq(@, 1, Len(@) - 1)]

Running == pc \in Phases /\ stack # << >> /\ returned = << >>

Frozen == UNCHANGED << M, N, external_num,
                       group_person_lower_limit, group_person_upper_limit,
                       group_external_upper_limit,
                       max_group_external_touch_upper_limit,
                       max_group_member_touch_upper_limit,
                       group_leaders, group_members, groups,
                       group_members_no_external, group_members_external,
                       harness >>

\* lines 199-206: the candidate group admits the person: append and recurse
Assign ==
    /\ Running
    /\ Top.index < Len(People)
    /\ Top.group_id < M
    /\ can_assign_func(Person, Top.group_id)
    /\ LET table == Append_(assigned_groups, Top.group_id, Person)
       IN  /\ assigned_groups' = table
           /\ stack' = Append(SetTop([Top EXCEPT !.appended = @ + 1]),
                               Frame(Top.index + 1, table))
    /\ UNCHANGED << pc, returned, result >>
    /\ Frozen

\* lines 199-201: the candidate group does not admit the person: next group
Reject ==
    /\ Running
    /\ Top.index < Len(People)
    /\ Top.group_id < M
    /\ ~can_assign_func(Person, Top.group_id)
    /\ stack' = SetTop([Top EXCEPT !.group_id = @ + 1])
    /\ UNCHANGED << pc, returned, result, assigned_groups >>
    /\ Frozen

\* line 213: every group was tried: the call returns False
ReturnFalse ==
    /\ Running
    /\ Top.index < Len(People)
    /\ Top.group_id = M
    /\ returned' = << Top >>
    /\ stack' = Caller
    /\ UNCHANGED << pc, result, assigned_groups >>
    /\ Frozen

\* lines 206-210: the recursive call returned False: undo, next group
Undo ==
    /\ pc \in Phases
    /\ returned # << >>
    /\ stack # << >>
    /\ assigned_groups' = Pop_(assigned_groups, Top.group_id)
    /\ stack' = SetTop([Top EXCEPT !.group_id = @ + 1])
    /\ returned' = << >>
    /\ UNCHANGED << pc, result >>
    /\ Frozen

FailureOf(phase) ==
    CASE phase = "assign_leaders" -> "leader_failure"
      [] phase = "assign_externals" -> "external_failure"
      [] phase = "assign_members" -> "member_failure"

\* the call at index 0 returned False: the phase fails and run returns the
\* phase's failure message (lines 231-234, 470-480)
PhaseFail ==
    /\ pc \in Phases
    /\ returned # << >>
    /\ stack = << >>
    /\ result' = [outcome |-> FailureOf(pc), output |-> << >>]
    /\ pc' = "done"
    /\ returned' = << >>
    /\ UNCHANGED << stack, assigned_groups >>
    /\ Frozen

\* run without its second step: the general members follow the leaders
NextPhaseSkip(phase) ==
    CASE phase = "assign_leaders" -> "assign_members"
      [] phase = "assign_externals" -> "assign_members"
      [] phase = "assign_members" -> "check"

NextPhase(phase) ==
    CASE phase = "assign_leaders" -> "assign_externals"
      [] phase = "assign_externals" -> "assign_members"
      [] phase = "assign_members" -> "check"

\* lines 193-194, 206-207: index == len(people): True is returned through
\* every active call, the phase succeeds and run goes on to the next step
PhaseSucceed ==
    /\ Running
    /\ Top.index = Len(People)
    /\ pc' = NextPhase(pc)
    /\ stack' = IF pc = "assign_members" THEN << >>
                ELSE << Frame(0, assigned_groups) >>
    /\ UNCHANGED << returned, result, assigned_groups >>
    /\ Frozen

\* ------------------------------------------------------------------ check
\* The people of a group up to the first one whose province conflicts:
\* TRUE when some person of the group is in conflict.
ProvinceConflict(table, g) ==
    \E i \in 1..Len(table[g]) : InList(table[g][i].province, groups[g])

\* total_people after the loop over all groups
RECURSIVE TotalPeople(_, _)
TotalPeople(table, m) ==
    IF m = 0 THEN 0 ELSE Len(table[m - 1]) + TotalPeople(table, m - 1)

Max(S) == CHOOSE x \in S : \A y \in S : y <= x
Min(S) == CHOOSE x \in S : \A y \in S : x <= y

\* The diagnostic of the first constraint check() finds violated in group g
GroupDiag(table, g) ==
    CASE Len(table[g]) > group_person_upper_limit -> "upper"
      [] Len(table[g]) < group_person_lower_limit -> "lower"
      [] ProvinceConflict(table, g) -> "province"
      [] ExternalCount(table[g]) < 1 -> "external"
      [] OTHER -> "ok"

\* check(): the first diagnostic, or "ok"
CheckDiag(table) ==
    LET bad == { g \in 0..(M - 1) : GroupDiag(table, g) # "ok" }
        sizes == { Len(table[g]) : g \in 0..(M - 1) }
    IN  IF bad # {} THEN GroupDiag(table, Min(bad))
        ELSE IF TotalPeople(table, M) # M + N THEN "total"
        ELSE IF sizes # {} /\ Max(sizes) - Min(sizes) > 1 THEN "spread"
        ELSE "ok"

check(table) == CheckDiag(table) = "ok"

\* format_output() with the members sliced as [2:]
FormatOutputSkip(table) ==
    [i \in 0..(M - 1) |->
        [leader |-> table[i][1], members |-> SubSeq(table[i], 3, Len(table[i]))]]

\* format_output(): per group, the leader and the members with their tags
FormatOutput(table) ==
    [i \in 0..(M - 1) |->
        [leader |-> table[i][1], members |-> Tail(table[i])]]

\* lines 485-489: the validator decides between the table and the
\* validation-failure message
Check ==
    /\ pc = "check"
    /\ result' = IF check(assigned_groups)
                 THEN [outcome |-> "table", output |-> FormatOutput(assigned_groups)]
                 ELSE [outcome |-> "check_failure", output |-> << >>]
    /\ pc' = "done"
    /\ UNCHANGED << stack, returned, assigned_groups >>
    /\ Frozen

Next ==
    \/ Run
    \/ Assign
    \/ Reject
    \/ ReturnFalse
    \/ Undo
    \/ PhaseFail
    \/ PhaseSucceed
    \/ Check

Spec == Init /\ [][Next]_vars

\* ------------------------------------------- the validator on any table
\* people[i] for the i with f[i] = g, in list order
RECURSIVE Pick(_, _, _)
Pick(people, f, g) ==
    IF people = << >> THEN << >>
    ELSE (IF f[1] = g THEN << Head(people) >> ELSE << >>)
         \o Pick(Tail(people), Tail(f), g)

\* Every table that puts each person in one group or in none
Tables(people, m) ==
    { [g \in 0..(m - 1) |-> Pick(people, f, g)] :
        f \in [1..Len(people) -> -1..(m - 1)] }

\* An input is loaded and a caller sets self.assigned_groups to some table
\* before calling check() (lines 520, 451).
AnyTable ==
    /\ pc = "idle"
    /\ \E lines \in Texts(GroupCounts, 0..MaxN, CheckProvinces) :
         \E pl \in Permutations(1..ParseM(lines)) :
           \E pm \in Permutations(1..ParseN(lines)) :
             /\ LoadInput(lines, pl, pm)
             /\ assigned_groups' \in
                  Tables(ParseLeaders(lines) \o ParseMembers(lines), ParseM(lines))
             /\ harness' = [text |-> lines, pl |-> pl, pm |-> pm,
                            first |-> << >>]
    /\ pc' = "check"
    /\ stack' = << >>
    /\ returned' = << >>
    /\ result' = [outcome |-> "none", output |-> << >>]

NextCheck ==
    \/ AnyTable
    \/ Check

SpecCheck == Init /\ [][NextCheck]_vars

\* ------------------------------------------ a second run on the same object
\* The texts of the runs that are repeated
ShortTexts == Texts(GroupCounts, 0..(MaxN - 1), Provinces)

RunShort == RunOn(ShortTexts)

\* run(seed, text) is called again on the same object with the text and the
\* seed of the run that has just ended (the loop of lines 508-510, the seed
\* kept); the caller keeps what the first run returned and left.
RunAgain ==
    /\ pc = "done"
    /\ harness.first = << >>
    /\ StartRun(harness.text, harness.pl, harness.pm)
    /\ harness' = [harness EXCEPT
                     !.first = << [result |-> result, table |-> assigned_groups] >>]

NextRerun ==
    \/ RunShort
    \/ RunAgain
    \/ Assign
    \/ Reject
    \/ ReturnFalse
    \/ Undo
    \/ PhaseFail
    \/ PhaseSucceed
    \/ Check

SpecRerun == Init /\ [][NextRerun]_vars

\* the steps of run after its input is loaded
RunSteps ==
    \/ Assign
    \/ Reject
    \/ ReturnFalse
    \/ Undo
    \/ PhaseFail
    \/ PhaseSucceed
    \/ Check

\* One call of run on the short inputs.  The program is sequential: once
\* run is called, a step that can be taken is taken.
NextFair ==
    \/ RunShort
    \/ Assign
    \/ Reject
    \/ ReturnFalse
    \/ Undo
    \/ PhaseFail
    \/ PhaseSucceed
    \/ Check

SpecFair == Init /\ [][NextFair]_vars /\ WF_vars(RunSteps)

\* ------------------------------------------------------ runs on three groups
\* Three groups, one province, up to MaxN + 1 members: the smallest inputs
\* in which a touch quota is smaller than the number of groups that have
\* room to reach the upper limit.
ThreeTexts == Texts({3}, 0..(MaxN + 1), {"A"})

RunThree == RunOn(ThreeTexts)

NextThree ==
    \/ RunThree
    \/ Assign
    \/ Reject
    \/ ReturnFalse
    \/ Undo
    \/ PhaseFail
    \/ PhaseSucceed
    \/ Check

SpecThree == Init /\ [][NextThree]_vars

\* ---------------------------------------------------------- init() alone
\* init() on an object whose M, N and external_num are m, n and e (lines
\* 148-181); the people lists are as the class defines them, empty.
ApplyInit ==
    /\ pc = "idle"
    /\ \E m \in 1..LimitMaxM : \E n \in 0..LimitMaxN : \E e \in 0..LimitMaxE :
         /\ M' = m
         /\ N' = n
         /\ external_num' = e
         /\ group_person_lower_limit' = LowerLimit(m, n)
         /\ group_person_upper_limit' = UpperLimit(m, n)
         /\ group_external_upper_limit' = ExternalUpperLimit(e, m)
         /\ max_group_member_touch_upper_limit' = TouchLimit(m + n, m)
         /\ max_group_external_touch_upper_limit' = TouchLimit(e, m)
    /\ group_members_external' =
           SelectSeq(group_members, LAMBDA mem : mem.is_external)
    /\ group_members_no_external' =
           SelectSeq(group_members, LAMBDA mem : ~mem.is_external)
    /\ pc' = "init"
    /\ UNCHANGED << assigned_groups, group_leaders, group_members, groups,
                    stack, returned, result, harness >>

NextInit == ApplyInit

SpecInit == Init /\ [][NextInit]_vars

\* ------------------------------------------------- the two-group scenario
\* M = 2, N = 3; leaders 1 (A) and 2 (B); members 3 (A, external),
\* 4 (C, external) and 5 (B); group 0 excludes B, group 1 excludes A.
ScenarioText ==
    << << 2 >>, << 3 >>,
       << 1, "A" >>, << 2, "B" >>,
       << 3, "A", ExternalMark >>, << 4, "C", ExternalMark >>, << 5, "B" >>,
       << "B" >>, << "A" >> >>

RunScenario == RunOn({ ScenarioText })

\* run() on the scenario: no phase of it fails, see C13
NextScenario ==
    \/ RunScenario
    \/ Assign
    \/ Reject
    \/ ReturnFalse
    \/ Undo
    \/ PhaseSucceed
    \/ Check

SpecScenario == Init /\ [][NextScenario]_vars

\* ================================================================ claims
\* The limits as the specification states them, computed from the people
\* lists and not from the attributes init() has set.
GroupIds == 0..(M - 1)
TotalExternal == ExternalCount(group_leaders) + ExternalCount(group_members)
SpecLower == (M + N) \div M
SpecUpper == (M + N + M - 1) \div M
SpecExternalUpper == (TotalExternal + M - 1) \div M

LeaderSet == Range(group_leaders)
MemberSet == Range(group_members)

Done(outcome) == pc = "done" /\ result.outcome = outcome

\* The table run has returned: the size and the external count of group g
ReturnedGroup(g) == << result.output[g].leader >> \o result.output[g].members
ReturnedSize(g) == Len(ReturnedGroup(g))
ReturnedExternal(g) == ExternalCount(ReturnedGroup(g))

\* the places <<g, i>> of a table and the people at them
Places(table) ==
    UNION { { << g, i >> : i \in 1..Len(table[g]) } : g \in DOMAIN table }
Occurrences(table, person) ==
    Cardinality({ pl \in Places(table) : table[pl[1]][pl[2]] = person })

\* ---------------------------------------------------------------------
\* C1: whenever assign_leaders, assign_externals and assign_members all
\* succeed in one run, check() accepts the table: the outcome "search
\* succeeded but validation failed" is unreachable.
C1_SearchSuccessIsValid == result.outcome # "check_failure"

\* ---------------------------------------------------------------------
\* C2: in every table run returns, every group's size is between
\* floor((M+N)/M) and ceil((M+N)/M), and the largest size exceeds the
\* smallest by at most 1.
C2_ReturnedSizesBalanced ==
    Done("table") =>
        /\ \A g \in GroupIds :
             SpecLower <= ReturnedSize(g) /\ ReturnedSize(g) <= SpecUpper
        /\ \A g \in GroupIds : \A h \in GroupIds :
             ReturnedSize(g) - ReturnedSize(h) <= 1

C2_Witness ==
    /\ Done("table")
    /\ M = 2
    /\ \E g \in GroupIds : \E h \in GroupIds :
         ReturnedSize(g) = 3 /\ ReturnedSize(h) = 2

\* ---------------------------------------------------------------------
\* C3: in every table run returns, every group's external count (an
\* external leader included) is at least 1 and at most ceil(E/M), although
\* phase 1 places the leaders without looking at external counts.
C3_ReturnedExternalsBounded ==
    Done("table") =>
        \A g \in GroupIds :
            1 <= ReturnedExternal(g) /\ ReturnedExternal(g) <= SpecExternalUpper

C3_Witness ==
    /\ Done("table")
    /\ M = 2
    /\ \E g \in GroupIds :
         /\ result.output[g].leader.is_external
         /\ ReturnedExternal(g) = SpecExternalUpper
         /\ ReturnedExternal(g) >= 2
    /\ \E g \in GroupIds : ReturnedExternal(g) < SpecExternalUpper

\* ---------------------------------------------------------------------
\* C4: in every state of a run no person held in group g has a province
\* that is in group g's excluded-provinces list.
C4_NoExcludedProvince ==
    \A pl \in Places(assigned_groups) :
        ~InList(assigned_groups[pl[1]][pl[2]].province, groups[pl[1]])

\* a backtrack in phase 3 with every group excluding some province and
\* somebody placed whose province another group excludes
C4_Witness ==
    /\ pc = "assign_members"
    /\ returned # << >>
    /\ \A g \in GroupIds : groups[g] # << NoProvince >>
    /\ \E pl \in Places(assigned_groups) : \E g \in GroupIds :
         /\ pl[2] >= 2
         /\ InList(assigned_groups[pl[1]][pl[2]].province, groups[g])

\* ---------------------------------------------------------------------
\* C5: in every state of the search nobody is in the table more than once
\* and everybody in it is one of the M leaders and N members; in every
\* table run returns each of them is there exactly once, so the group
\* sizes sum to M+N.
C5_EveryoneOnce ==
    /\ \A pl \in Places(assigned_groups) :
         /\ assigned_groups[pl[1]][pl[2]] \in LeaderSet \cup MemberSet
         /\ Occurrences(assigned_groups, assigned_groups[pl[1]][pl[2]]) = 1
    /\ Done("table") =>
         LET table == [g \in GroupIds |-> ReturnedGroup(g)]
         IN  /\ \A person \in LeaderSet \cup MemberSet :
                  Occurrences(table, person) = 1
             /\ Cardinality(Places(table)) = M + N

\* a call that has appended a person twice (it backed out of the first
\* placement) has just seen its second recursive call fail
C5_Witness ==
    /\ pc \in Phases
    /\ returned # << >>
    /\ stack # << >>
    /\ M = 2
    /\ N = MaxN
    /\ Top.appended >= 2

\* ---------------------------------------------------------------------
\* C6: once phase 1 has succeeded every group holds exactly one person, a
\* leader; from then on, through phases 2 and 3, after any backtrack and in
\* the returned table, element 0 of every group is that same leader and no
\* other leader is in the group.
PhaseOneDone ==
    \/ pc \in {"assign_externals", "assign_members", "check"}
    \/ pc = "done" /\ result.outcome # "leader_failure"

\* the table as it was when the running phase started
PhaseEntry == IF stack # << >> THEN stack[1].entry ELSE returned[1].entry

LeaderFirst(table) ==
    \A g \in GroupIds :
        /\ Len(table[g]) >= 1
        /\ table[g][1] \in LeaderSet
        /\ \A i \in 2..Len(table[g]) : table[g][i] \notin LeaderSet

C6_LeaderStaysFirst ==
    /\ [](pc = "assign_externals" =>
            \A g \in GroupIds :
                Len(PhaseEntry[g]) = 1 /\ PhaseEntry[g][1] \in LeaderSet)
    /\ [](PhaseOneDone => LeaderFirst(assigned_groups))
    /\ [](Done("table") =>
            \A g \in GroupIds :
                /\ result.output[g].leader = assigned_groups[g][1]
                /\ result.output[g].leader \in LeaderSet
                /\ \A i \in 1..Len(result.output[g].members) :
                     result.output[g].members[i] \notin LeaderSet)
    /\ [][(PhaseOneDone /\ PhaseOneDone') =>
            \A g \in GroupIds : assigned_groups'[g][1] = assigned_groups[g][1]]_vars

\* phase 3 has just undone a placement in a group that still holds more
\* than its leader
C6_Witness ==
    /\ pc = "assign_members"
    /\ returned = << >>
    /\ stack # << >>
    /\ Top.appended >= 1
    /\ Top.group_id >= 1
    /\ \E g \in GroupIds : Len(assigned_groups[g]) >= 2

\* ---------------------------------------------------------------------
\* C7: when a call of assign_backtrace returns False, every group's
\* sequence is what it was when the call started; a failed phase leaves the
\* placements of the earlier phases as they were.
C7_FailureRestoresTable ==
    /\ returned # << >> => assigned_groups = returned[1].entry
    /\ Done("leader_failure") =>
         \A g \in GroupIds : assigned_groups[g] = << >>
    /\ Done("external_failure") =>
         \A g \in GroupIds :
             Len(assigned_groups[g]) = 1 /\ assigned_groups[g][1] \in LeaderSet
    /\ Done("member_failure") =>
         /\ \A person \in Range(group_members_no_external) :
              Occurrences(assigned_groups, person) = 0
         /\ \A person \in LeaderSet \cup Range(group_members_external) :
              Occurrences(assigned_groups, person) = 1

\* a call that had appended people and recursed returns False in a phase
\* that started from a table the earlier phases filled
C7_Witness ==
    /\ pc \in {"assign_externals", "assign_members"}
    /\ returned # << >>
    /\ returned[1].appended >= 2
    /\ returned[1].index >= 1

\* ---------------------------------------------------------------------
\* C8: on any table over groups 0..M-1, built by the engine or not,
\* check() passes only if every group's size is in [lower, upper], the
\* size spread is at most 1, every group's external count is at least 1
\* and at most external_upper, nobody's province is excluded by their
\* group, and the number of people placed is M+N.
AcceptedAssignment(table) ==
    /\ \A g \in GroupIds :
         /\ SpecLower <= Len(table[g]) /\ Len(table[g]) <= SpecUpper
         /\ 1 <= ExternalCount(table[g])
         /\ ExternalCount(table[g]) <= SpecExternalUpper
    /\ \A g \in GroupIds : \A h \in GroupIds :
         Len(table[g]) - Len(table[h]) <= 1
    /\ \A pl \in Places(table) :
         ~InList(table[pl[1]][pl[2]].province, groups[pl[1]])
    /\ Cardinality(Places(table)) = M + N

C8_CheckPassMeansAccepted ==
    Done("table") => AcceptedAssignment(assigned_groups)

\* ---------------------------------------------------------------------
\* C9: when the total external count E is 0 the run reports the
\* external-placement failure without attempting the external phase; it
\* ends neither in a validation failure nor in a general-member failure
\* nor in a table.
C9_NoExternalsIsExternalFailure ==
    (pc # "idle" /\ external_num = 0) =>
        /\ pc \notin {"assign_externals", "assign_members", "check"}
        /\ result.outcome \in {"none", "leader_failure", "external_failure"}

\* ---------------------------------------------------------------------
\* C10: if some external member's province is excluded by every group,
\* then once the leaders are placed the run ends in the external-placement
\* failure: never in a table, a general-member failure or a validation
\* failure.
BlockedExternal ==
    \E i \in 1..Len(group_members_external) :
        \A g \in GroupIds :
            InList(group_members_external[i].province, groups[g])

C10_BlockedExternalFails ==
    (pc # "idle" /\ BlockedExternal) =>
        /\ pc \notin {"assign_members", "check"}
        /\ result.outcome \in {"none", "leader_failure", "external_failure"}
        /\ (pc = "done" /\ result.outcome # "leader_failure") =>
               /\ result.outcome = "external_failure"
               /\ result.output = << >>

C10_Witness ==
    /\ Done("external_failure")
    /\ BlockedExternal
    /\ M = 2
    /\ Len(group_members_external) >= 2

\* ---------------------------------------------------------------------
\* C11: a second run on the same object with the same text and the same
\* seed starts from an empty table and from the counts of the input alone,
\* and ends as the first run did: the identical table or the identical
\* failure, whichever of the five outcomes the first run had.
SecondRun == harness.first # << >>

C11_RerunIsIdentical ==
    SecondRun =>
        /\ external_num = TotalExternal
        /\ (pc = "assign_leaders" /\ stack # << >>) =>
               stack[1].entry = [g \in GroupIds |-> << >>]
        /\ pc = "done" =>
               /\ result = harness.first[1].result
               /\ assigned_groups = harness.first[1].table

\* the second run has ended in a table after the first left a full table
C11_Witness ==
    /\ SecondRun
    /\ Done("table")
    /\ M = 2
    /\ N = 2

\* the second run has ended after a first run that failed in phase 3
C11_WitnessFailure ==
    /\ SecondRun
    /\ Done("member_failure")
    /\ M = 2

\* ---------------------------------------------------------------------
\* C12: with M = 1 the limits are upper = lower = 1 + N, external_upper = E
\* and both touch quotas 1; if E >= 1 and nobody's province is excluded by
\* the single group, the run succeeds for every ordering, without a single
\* failed call, and returns the leader followed by all N members.
NobodyExcluded ==
    \A person \in LeaderSet \cup MemberSet :
        \A g \in GroupIds : ~InList(person.province, groups[g])

C12_SingleGroupSucceeds ==
    (pc # "idle" /\ M = 1 /\ TotalExternal >= 1 /\ NobodyExcluded) =>
        /\ group_person_upper_limit = 1 + N
        /\ group_person_lower_limit = 1 + N
        /\ group_external_upper_limit = TotalExternal
        /\ max_group_member_touch_upper_limit = 1
        /\ max_group_external_touch_upper_limit = 1
        /\ returned = << >>
        /\ result.outcome \in {"none", "table"}
        /\ pc = "done" =>
             /\ result.outcome = "table"
             /\ result.output[0].leader = group_leaders[1]
             /\ Len(result.output[0].members) = N
             /\ Range(result.output[0].members) = MemberSet

C12_Witness ==
    /\ Done("table")
    /\ M = 1
    /\ N = MaxN
    /\ groups[0] # << NoProvince >>
    /\ ~group_leaders[1].is_external
    /\ Len(group_members_external) >= 1
    /\ Len(group_members_no_external) >= 1

\* ---------------------------------------------------------------------
\* C13: in the two-group scenario the limits are lower = 2, upper = 3,
\* external_upper = 1, touch_quota_size = 1, touch_quota_external = 2, and
\* for every ordering of leaders and members no phase fails and the run
\* returns a validated table with group sizes 2 and 3 and at least one
\* external in each group.
C13_ScenarioSucceeds ==
    pc # "idle" =>
        /\ group_person_lower_limit = 2
        /\ group_person_upper_limit = 3
        /\ group_external_upper_limit = 1
        /\ max_group_member_touch_upper_limit = 1
        /\ max_group_external_touch_upper_limit = 2
        /\ ~(returned # << >> /\ stack = << >>)
        /\ result.outcome \in {"none", "table"}
        /\ pc = "done" =>
             /\ result.outcome = "table"
             /\ { ReturnedSize(g) : g \in GroupIds } = {2, 3}
             /\ \A g \in GroupIds : ReturnedExternal(g) >= 1

\* the ordering in which member 4 is tried before member 3: the table is
\* returned after the engine has backed out of putting member 4 in group 0
C13_Witness ==
    /\ Done("table")
    /\ group_members_external[1].name = 4
    /\ group_leaders[1].name = 2
    /\ ReturnedSize(0) = 2
    /\ ReturnedSize(1) = 3

\* ---------------------------------------------------------------------
\* C14: for M >= 1, N >= 0, E >= 0 init() yields lower = floor((M+N)/M),
\* upper = ceil((M+N)/M), external_upper = ceil(E/M), touch_quota_size =
\* (M+N) mod M and touch_quota_external = E mod M, each quota replaced by M
\* exactly when its remainder is 0; so both quotas are in 1..M and
\* upper - lower is 0 or 1.
IsFloor(k, x, m) == k * m <= x /\ x < (k + 1) * m
IsCeil(k, x, m) == (k - 1) * m < x /\ x <= k * m
IsRemainder(r, x, m) ==
    0 <= r /\ r < m /\ \E q \in 0..x : x = q * m + r
IsQuota(t, x, m) ==
    \E r \in 0..(m - 1) :
        /\ IsRemainder(r, x, m)
        /\ (r = 0 => t = m)
        /\ (r # 0 => t = r)

C14_LimitsAsSpecified ==
    pc = "init" =>
        /\ IsFloor(group_person_lower_limit, M + N, M)
        /\ IsCeil(group_person_upper_limit, M + N, M)
        /\ IsCeil(group_external_upper_limit, external_num, M)
        /\ IsQuota(max_group_member_touch_upper_limit, M + N, M)
        /\ IsQuota(max_group_external_touch_upper_limit, external_num, M)
        /\ max_group_member_touch_upper_limit \in 1..M
        /\ max_group_external_touch_upper_limit \in 1..M
        /\ group_person_upper_limit - group_person_lower_limit \in {0, 1}

\* M = 3, N = 4, E = 6: the size remainder is 1, the external remainder 0
C14_Witness ==
    /\ pc = "init"
    /\ M = 3 /\ N = 4 /\ external_num = 6
    /\ max_group_member_touch_upper_limit = 1
    /\ max_group_external_touch_upper_limit = 3
    /\ group_person_upper_limit = 3
    /\ group_person_lower_limit = 2
    /\ group_external_upper_limit = 2

\* ---------------------------------------------------------------------
\* C15: in every state of a run after phase 1, through phases 2 and 3 and
\* in the final table, the number of groups whose size has reached upper is
\* at most touch_quota_size.
SpecSizeQuota == IF (M + N) % M = 0 THEN M ELSE (M + N) % M
SpecExternalQuota == IF TotalExternal % M = 0 THEN M ELSE TotalExternal % M

SizeTouched(table) ==
    Cardinality({ g \in GroupIds : Len(table[g]) >= SpecUpper })
ExternalTouched(table) ==
    Cardinality({ g \in GroupIds : ExternalCount(table[g]) >= SpecExternalUpper })

C15_SizeTouchWithinQuota ==
    PhaseOneDone => SizeTouched(assigned_groups) <= SpecSizeQuota

\* ---------------------------------------------------------------------
\* C16: in every state of a run, the leader placements of phase 1
\* included, the number of groups whose external count has reached
\* external_upper is at most touch_quota_external.
C16_ExternalTouchWithinQuota ==
    pc # "idle" => ExternalTouched(assigned_groups) <= SpecExternalQuota

\* phase 2 has filled the quota: as many groups at external_upper >= 2 as
\* the quota allows, fewer than M, with an external leader among them
C16_Witness ==
    /\ pc = "assign_externals"
    /\ SpecExternalUpper >= 2
    /\ SpecExternalQuota < M
    /\ ExternalTouched(assigned_groups) = SpecExternalQuota
    /\ \E g \in GroupIds :
         /\ assigned_groups[g][1].is_external
         /\ ExternalCount(assigned_groups[g]) = SpecExternalUpper

\* phase 1 has placed external leaders up to the quota
C16_WitnessLeaders ==
    /\ pc = "assign_leaders"
    /\ SpecExternalQuota < M
    /\ ExternalTouched(assigned_groups) = SpecExternalQuota

\* ---------------------------------------------------------------------
\* C17: the engine is exhaustive and takes the lowest group id first.  A
\* phase reports failure only if, from the table it was entered with, no
\* vector of group ids for its people, taken in list order, is admissible
\* at every placement; phase 1 fails if and only if no one-to-one
\* assignment of leaders to groups respects the province exclusions; and
\* the assignment a phase succeeds with is the lexicographically smallest
\* admissible vector.

\* the running phase's predicate, evaluated on a given table
AdmitsIn(table, person, g) ==
    LET extTouched ==
            Cardinality({ h \in GroupIds :
                ExternalCount(table[h]) >= group_external_upper_limit })
        sizeTouched ==
            Cardinality({ h \in GroupIds :
                Len(table[h]) >= group_person_upper_limit })
    IN  CASE pc = "assign_leaders" ->
                /\ ~InList(person.province, groups[g])
                /\ Len(table[g]) = 0
          [] pc = "assign_externals" ->
                /\ ~InList(person.province, groups[g])
                /\ ExternalCount(table[g]) < group_external_upper_limit
                /\ Len(table[g]) < group_person_upper_limit
                /\ ~( /\ ExternalCount(table[g]) + 1
                            >= group_external_upper_limit
                      /\ extTouched >= max_group_external_touch_upper_limit )
          [] pc = "assign_members" ->
                /\ ~InList(person.province, groups[g])
                /\ Len(table[g]) < group_person_upper_limit
                /\ ~( /\ Len(table[g]) + 1 >= group_person_upper_limit
                      /\ sizeTouched >= max_group_member_touch_upper_limit )
          [] OTHER -> FALSE

Vectors == [1..Len(People) -> GroupIds]

RECURSIVE Admissible(_, _, _)
\* every placement of vec from position i on is admissible when it is made
Admissible(table, vec, i) ==
    IF i > Len(People) THEN TRUE
    ELSE /\ AdmitsIn(table, People[i], vec[i])
         /\ Admissible(Append_(table, vec[i], People[i]), vec, i + 1)

RECURSIVE Placed(_, _, _)
\* the table after the placements of vec from position i on
Placed(table, vec, i) ==
    IF i > Len(People) THEN table
    ELSE Placed(Append_(table, vec[i], People[i]), vec, i + 1)

LexLess(a, b) ==
    \E i \in 1..Len(People) :
        /\ a[i] < b[i]
        /\ \A j \in 1..(i - 1) : a[j] = b[j]

\* the call at index 0 has returned False: the phase is about to fail
FailurePending == pc \in Phases /\ returned # << >> /\ stack = << >>

\* the call at index len(people) is active: the phase is about to succeed
SuccessPending == Running /\ Top.index = Len(People)

\* the group ids the active calls have chosen, in list order
Found == [i \in 1..Len(People) |-> stack[i].group_id]

LeaderMatchingExists ==
    \E f \in Permutations(GroupIds) :
        \A g \in GroupIds :
            ~InList(group_leaders[g + 1].province, groups[f[g]])

C17_EngineExhaustive ==
    /\ FailurePending =>
         \A v \in Vectors : ~Admissible(PhaseEntry, v, 1)
    /\ SuccessPending =>
         /\ Admissible(PhaseEntry, Found, 1)
         /\ assigned_groups = Placed(PhaseEntry, Found, 1)
         /\ \A v \in Vectors :
              Admissible(PhaseEntry, v, 1) => ~LexLess(v, Found)
    /\ Done("leader_failure") => ~LeaderMatchingExists
    /\ PhaseOneDone => LeaderMatchingExists

\* a phase succeeds after backtracking: some call placed its person twice,
\* so the vector found is not the first one tried
C17_Witness ==
    /\ SuccessPending
    /\ \E k \in 1..Len(People) : stack[k].appended >= 2

\* a phase fails after it had placed and withdrawn its first person
C17_WitnessFailure ==
    /\ FailurePending
    /\ returned[1].appended >= 1

\* phase 1 fails although every leader has a group that does not exclude
\* their province
C17_WitnessLeaders ==
    /\ Done("leader_failure")
    /\ \A i \in 1..M : \E g \in GroupIds :
          ~InList(group_leaders[i].province, groups[g])

\* ---------------------------------------------------------------------
\* C18: if E >= M and the external phase succeeds, then at the end of
\* phase 2 every group's external count is floor(E/M) or ceil(E/M), exactly
\* touch_quota_external groups hold ceil(E/M) when M does not divide E, and
\* no group is left without an external.
PhaseTwoDone ==
    \/ pc \in {"assign_members", "check"}
    \/ pc = "done" /\ result.outcome \notin {"leader_failure", "external_failure"}

\* phase 3 has just been entered: the table is the one phase 2 left
PhaseTwoEnd ==
    pc = "assign_members" /\ stack = << Frame(0, assigned_groups) >>

ExternalsEven(table) ==
    /\ \A g \in GroupIds :
         /\ ExternalCount(table[g]) \in
               {TotalExternal \div M, SpecExternalUpper}
         /\ ExternalCount(table[g]) >= 1
    /\ TotalExternal % M # 0 =>
         Cardinality({ g \in GroupIds :
             ExternalCount(table[g]) = SpecExternalUpper }) = SpecExternalQuota

C18_ExternalsSpreadEvenly ==
    (PhaseTwoDone /\ TotalExternal >= M) => ExternalsEven(assigned_groups)

\* phase 2 has just succeeded with E above M and not a multiple of M: some
\* group holds floor(E/M) externals
C18_Witness ==
    /\ PhaseTwoEnd
    /\ M >= 2
    /\ TotalExternal > M
    /\ TotalExternal % M # 0
    /\ \E g \in GroupIds :
         ExternalCount(assigned_groups[g]) = TotalExternal \div M

\* ---------------------------------------------------------------------
\* C19: every run terminates in exactly one of five outcomes (a returned
\* table, leader failure, external failure, general-member failure,
\* validation failure); the phases run in the order leaders, externals,
\* general members, validation; a later phase starts only after the
\* earlier one has succeeded; and within a phase the recursion depth never
\* exceeds the length of the phase's people list plus one.
Outcomes ==
    {"table", "leader_failure", "external_failure", "member_failure",
     "check_failure"}

\* the steps of run in order, and the outcome with which each may end
StepOrder ==
    { << "idle", "assign_leaders" >>,
      << "assign_leaders", "assign_externals" >>,
      << "assign_externals", "assign_members" >>,
      << "assign_members", "check" >> }

EndsWith ==
    { << "assign_leaders", "leader_failure" >>,
      << "assign_externals", "external_failure" >>,
      << "assign_members", "member_failure" >>,
      << "check", "check_failure" >>,
      << "check", "table" >> }

\* every person of the running phase is in the table
PhasePlaced ==
    \A i \in 1..Len(People) :
        \E g \in GroupIds : InList(People[i], assigned_groups[g])

C19_WitnessDepth ==
    /\ Running
    /\ Len(People) >= 2
    /\ Len(stack) = Len(People) + 1

====
